---- MODULE Spec2Model ----
(***************************************************************************)
(* A model of the mandelbrot crate: the Matrix grid container (matrix.rs), *)
(* the escape-time evaluator, the Position stepping rule and the field     *)
(* builders (mandelbrot.rs), and the worker-pool pipeline (utils.rs).      *)
(*                                                                         *)
(* f64 values are modelled as fixed-point integers in units of 1/Q; the    *)
(* inputs are dyadic, so that the f64 operations the builder performs on   *)
(* them are exact.  Option<T> is <<>> (None) or <<v>> (Some(v)).           *)
(***************************************************************************)
EXTENDS Integers, Sequences, FiniteSets, TLC

VARIABLES
    m,        \* the grid: a Matrix [width, height, data]
    ret,      \* what the last grid operation returned
    args,     \* the arguments the operation under check is called with
    pipe,     \* the pipeline: threads, channels and the build call's result
    ctl,      \* a PositionController
    target,   \* the Position make_step steps toward
    step_ret  \* what the last make_step call did

vars == <<m, ret, args, pipe, ctl, target, step_ret>>

\* ------------------------------------------------------------------ bounds

\* A grid has at most MaxCells cells (width * height <= MaxCells).
MaxCells == 4
\* The workers option is None or Some(0 .. MaxWorkersOpt).
MaxWorkersOpt == 3
\* num_cpus::get() is 1 .. MaxCpus.
MaxCpus == 2
\* A smoothing block is at most MaxSmooth pixels on each axis.
MaxSmooth == 2

\* Point coordinates of a Position are -MaxCoord .. MaxCoord halves.
MaxCoord == 2
\* A Position's zoom is 2^0 .. 2^MaxZoomExp.
MaxZoomExp == 2
\* A Position's limit, when stepping, is 0 .. MaxStepLimit.
MaxStepLimit == 3
\* The stepping loop is followed for at most MaxCalls calls of make_step.
MaxCalls == 16
\* Manual navigation keeps both point coordinates within -MaxPan .. MaxPan
\* eighths.
MaxPan == 1
\* The evaluator is given the points c with both parts in -MaxC .. MaxC, in
\* eighths.
MaxC == 2
\* The width in bits of the words the u32 get-closer rule is run on.
WordBits == 3

\* ------------------------------------------------------------- small helpers

None == <<>>
Some(v) == <<v>>
IsSome(o) == o # <<>>
Unwrap(o) == o[1]

\* f64 values are integers in units of 1/Q.
Q == 2 * 2 * 2
F(n) == n * Q
Abs(n) == IF n < 0 THEN -n ELSE n
\* Ord::max
Max(a, b) == IF a > b THEN a ELSE b
\* Division truncating toward zero, as a float-to-lattice rounding.
TruncDiv(a, b) ==
    IF (a >= 0) = (b > 0) THEN Abs(a) \div Abs(b) ELSE -(Abs(a) \div Abs(b))
FMul(a, b) == TruncDiv(a * b, Q)
FDiv(a, b) == TruncDiv(a * Q, b)

Range(s) == {s[i] : i \in 1 .. Len(s)}

\* 0 .. n-1 as a sequence (a Rust range 0..n).
RangeSeq(n) == [i \in 1 .. n |-> i - 1]

RECURSIVE Concat(_)
Concat(ss) == IF ss = <<>> THEN <<>> ELSE Head(ss) \o Concat(Tail(ss))

\* ----------------------------------------------------------- utils.rs iterators

\* self.flat_map(|item| repeat(item).zip(other.clone()))
cross_join(a, b) ==
    Concat([i \in 1 .. Len(a) |-> [j \in 1 .. Len(b) |-> <<a[i], b[j]>>]])

flip(s) == [i \in 1 .. Len(s) |-> <<s[i][2], s[i][1]>>]

duplicate(s) == [i \in 1 .. Len(s) |-> <<s[i], s[i]>>]

\* Iterator::zip stops at the shorter of the two.
zip(a, b) ==
    [i \in 1 .. (IF Len(a) < Len(b) THEN Len(a) ELSE Len(b)) |-> <<a[i], b[i]>>]

\* (0..n).step_by(step): 0, step, 2*step, ... below n.
step_by(n, step) ==
    [i \in 1 .. ((n + step - 1) \div step) |-> (i - 1) * step]

\* ------------------------------------------------------------------ matrix.rs

Iteration_Infinite == <<"Infinite", 0>>
Iteration_Finite(i) == <<"Finite", i>>

from_raw(width, height, data) ==
    [width |-> width, height |-> height, data |-> data]

\* A mutant of try_from_raw: storage longer than width * height is accepted.
try_from_raw_at_least(width, height, data) ==
    IF width * height <= Len(data)
    THEN [ok |-> TRUE, matrix |-> from_raw(width, height, data), err |-> <<>>]
    ELSE [ok |-> FALSE, matrix |-> <<>>, err |-> data]

\* Ok(matrix) or Err(data)
try_from_raw(width, height, data) ==
    IF width * height = Len(data)
    THEN [ok |-> TRUE, matrix |-> from_raw(width, height, data), err |-> <<>>]
    ELSE [ok |-> FALSE, matrix |-> <<>>, err |-> data]

new_with(width, height, f) ==
    from_raw(width, height, [i \in 1 .. (width * height) |-> f])

new(width, height) == new_with(width, height, Iteration_Infinite)

\* A mutant of data_index: column-major.
data_index_column_major(mx, x, y) == x * mx.height + y

data_index(mx, x, y) == y * mx.width + x

data_index_checked(mx, x, y) ==
    IF x < mx.width /\ y < mx.height
    THEN Some(data_index(mx, x, y))
    ELSE None

\* data.get_unchecked(index): storage is 0-based, a TLA+ sequence 1-based.
get_unchecked(data, index) == data[index + 1]

\* get / get_mut: the cell, or the fatal index_out_of_bounds.
get(mx, x, y) ==
    LET index == data_index_checked(mx, x, y) IN
    IF IsSome(index)
    THEN [panic |-> FALSE, slot |-> Unwrap(index),
          value |-> Some(get_unchecked(mx.data, Unwrap(index)))]
    ELSE [panic |-> TRUE, slot |-> -1, value |-> None]

get_mut(mx, x, y) == get(mx, x, y)

\* get_checked / get_checked_mut: Some(cell) or None.
get_checked(mx, x, y) ==
    LET index == data_index_checked(mx, x, y) IN
    IF IsSome(index)
    THEN [panic |-> FALSE, slot |-> Unwrap(index),
          value |-> Some(get_unchecked(mx.data, Unwrap(index)))]
    ELSE [panic |-> FALSE, slot |-> -1, value |-> None]

get_checked_mut(mx, x, y) == get_checked(mx, x, y)

\* A write through a &mut T that refers to storage[slot].
write_slot(mx, slot, value) ==
    [mx EXCEPT !.data = [mx.data EXCEPT ![slot + 1] = value]]

\* A mutant of indexes: the flip is missing, the pairs are (y, x).
indexes_unflipped(mx) == cross_join(RangeSeq(mx.height), RangeSeq(mx.width))

indexes(mx) == flip(cross_join(RangeSeq(mx.height), RangeSeq(mx.width)))

values(mx) == mx.data

pairs(mx) == zip(indexes(mx), values(mx))

\* pairs_mut: each index with the slot its &mut T refers to.
pairs_mut(mx) == zip(indexes(mx), RangeSeq(Len(mx.data)))

\* set: *self.get_mut(x, y) = value
set(mx, x, y, value) ==
    LET r == get_mut(mx, x, y) IN
    IF r.panic
    THEN [panic |-> TRUE, matrix |-> mx]
    ELSE [panic |-> FALSE, matrix |-> write_slot(mx, r.slot, value)]

\* set_checked: Ok(()) after the write, or Err(value)
set_checked(mx, x, y, value) ==
    LET r == get_checked_mut(mx, x, y) IN
    IF IsSome(r.value)
    THEN [ok |-> TRUE, matrix |-> write_slot(mx, r.slot, value), err |-> None]
    ELSE [ok |-> FALSE, matrix |-> mx, err |-> Some(value)]

\* A mutant of clear: the storage is emptied (Vec::clear) instead of refilled.
clear_truncating(mx) == [mx EXCEPT !.data = <<>>]

clear(mx) ==
    [mx EXCEPT !.data = [i \in 1 .. Len(mx.data) |-> Iteration_Infinite]]

\* --------------------------------------------------------------- mandelbrot.rs

\* A mutant of iterate: the escape test is >= 4.0.
RECURSIVE iterate_escape_at_four(_, _, _, _, _, _, _)
iterate_escape_at_four(re, im, limit, i, z_re, z_im, d) ==
    IF i >= limit
    THEN [value |-> Iteration_Infinite, steps |-> i]
    ELSE LET sq_re == z_re * z_re
             sq_im == z_im * z_im
         IN  IF sq_re + sq_im >= 4 * d * d
             THEN [value |-> Iteration_Finite(i), steps |-> i + 1]
             ELSE iterate_escape_at_four(re, im, limit, i + 1,
                          sq_re - sq_im + re * ((d * d) \div Q),
                          2 * z_re * z_im + im * ((d * d) \div Q),
                          d * d)

\* Complex64::compute_iterations, the loop.  z_i is kept exactly, as the pair
\* of numerators (z_re, z_im) over the denominator d = Q^(2^i).  steps counts
\* the runs of the loop's body.
RECURSIVE iterate(_, _, _, _, _, _, _)
iterate(re, im, limit, i, z_re, z_im, d) ==
    IF i >= limit
    THEN [value |-> Iteration_Infinite, steps |-> i]
    ELSE LET sq_re == z_re * z_re
             sq_im == z_im * z_im
         IN  IF sq_re + sq_im > 4 * d * d
             THEN [value |-> Iteration_Finite(i), steps |-> i + 1]
             ELSE iterate(re, im, limit, i + 1,
                          sq_re - sq_im + re * ((d * d) \div Q),
                          2 * z_re * z_im + im * ((d * d) \div Q),
                          d * d)

\* A mutant of in_fast_box: the box is closed.
in_fast_box_closed(re, im) ==
    /\ 2 * re >= -Q
    /\ 4 * re <= Q
    /\ 2 * im >= -Q
    /\ 2 * im <= Q

in_fast_box(re, im) ==
    /\ 2 * re > -Q
    /\ 4 * re < Q
    /\ 2 * im > -Q
    /\ 2 * im < Q

\* Complex64::compute_iterations with the path it took: the early return or
\* the loop, and the runs of the loop's body.
compute_iterations_traced(re, im, limit) ==
    IF in_fast_box(re, im)
    THEN [value |-> Iteration_Infinite, path |-> "fast", steps |-> 0]
    ELSE LET r == iterate(re, im, limit, 0, re, im, Q)
         IN  [value |-> r.value, path |-> "loop", steps |-> r.steps]

compute_iterations(re, im, limit) == compute_iterations_traced(re, im, limit).value

\* A mutant of as_complex_with_offset: the offset is not divided by the zoom.
as_complex_with_offset_unscaled(pos, offset_scale) ==
    <<pos.point[1] + offset_scale[1], pos.point[2] + offset_scale[2]>>

\* A Position is [point |-> <<x, y>>, zoom |-> z, limit |-> n], x, y, z in 1/Q.
as_complex_with_offset(pos, offset_scale) ==
    <<pos.point[1] + FDiv(offset_scale[1], pos.zoom),
      pos.point[2] + FDiv(offset_scale[2], pos.zoom)>>

Half == Q \div 2

\* f64 as u32: toward zero, a negative value gives 0 (the values of the
\* model stay far below u32::MAX, where the cast saturates).
as_u32(v) == IF v <= 0 THEN 0 ELSE v \div Q

\* impl GetCloser for u32
get_closer_u32(self, to, step) ==
    IF self = to
    THEN <<to, TRUE>>
    ELSE IF self < to
         THEN IF to - self < step THEN <<to, TRUE>> ELSE <<self + step, FALSE>>
         ELSE IF self - to < step THEN <<to, TRUE>> ELSE <<self - step, FALSE>>

\* The largest word (u32::MAX at 32 bits).
WordMax == 2 ^ WordBits - 1

\* a + b and a - b on words: the wrapped value, and whether the exact one is
\* outside the word (a panic in a debug build, a wrap in a release build).
word_add(a, b) == [value |-> (a + b) % (WordMax + 1), overflow |-> a + b > WordMax]

word_sub(a, b) == [value |-> (a - b + WordMax + 1) % (WordMax + 1), overflow |-> a < b]

\* A mutant of get_closer_words: the sum or difference is formed before the
\* distance is compared with the step.
get_closer_words_moved_first(self, to, step) ==
    IF self = to
    THEN [value |-> to, reached |-> TRUE, overflow |-> FALSE]
    ELSE IF self < to
         THEN LET delta == word_sub(to, self)
                  moved == word_add(self, step)
              IN  IF delta.value < step
                  THEN [value |-> to, reached |-> TRUE,
                        overflow |-> delta.overflow \/ moved.overflow]
                  ELSE [value |-> moved.value, reached |-> FALSE,
                        overflow |-> delta.overflow \/ moved.overflow]
         ELSE LET delta == word_sub(self, to)
                  moved == word_sub(self, step)
              IN  IF delta.value < step
                  THEN [value |-> to, reached |-> TRUE,
                        overflow |-> delta.overflow \/ moved.overflow]
                  ELSE [value |-> moved.value, reached |-> FALSE,
                        overflow |-> delta.overflow \/ moved.overflow]

\* impl GetCloser for u32, on words: every addition and subtraction it
\* executes is a word operation.
get_closer_words(self, to, step) ==
    IF self = to
    THEN [value |-> to, reached |-> TRUE, overflow |-> FALSE]
    ELSE IF self < to
         THEN LET delta == word_sub(to, self) IN
              IF delta.value < step
              THEN [value |-> to, reached |-> TRUE, overflow |-> delta.overflow]
              ELSE LET moved == word_add(self, step) IN
                   [value |-> moved.value, reached |-> FALSE,
                    overflow |-> delta.overflow \/ moved.overflow]
         ELSE LET delta == word_sub(self, to) IN
              IF delta.value < step
              THEN [value |-> to, reached |-> TRUE, overflow |-> delta.overflow]
              ELSE LET moved == word_sub(self, step) IN
                   [value |-> moved.value, reached |-> FALSE,
                    overflow |-> delta.overflow \/ moved.overflow]

\* A mutant of get_closer_f64: the Equal arm reports not reached.
get_closer_f64_equal_unreached(self, to, step) ==
    IF self = to
    THEN <<to, FALSE>>
    ELSE IF self < to
         THEN IF to - self < step THEN <<to, TRUE>> ELSE <<self + step, FALSE>>
         ELSE IF self - to < step THEN <<to, TRUE>> ELSE <<self - step, FALSE>>

\* A mutant of get_closer_f64: the step is always taken, never cut to the
\* distance left.
get_closer_f64_no_snap(self, to, step) ==
    IF self = to
    THEN <<to, TRUE>>
    ELSE IF self < to
         THEN <<self + step, FALSE>>
         ELSE <<self - step, FALSE>>

\* impl GetCloser for f64 (the values of the model are never NaN, so
\* partial_cmp is never None)
get_closer_f64(self, to, step) ==
    IF self = to
    THEN <<to, TRUE>>
    ELSE IF self < to
         THEN IF to - self < step THEN <<to, TRUE>> ELSE <<self + step, FALSE>>
         ELSE IF self - to < step THEN <<to, TRUE>> ELSE <<self - step, FALSE>>

\* impl GetCloser for Point<f64>
get_closer_point(self, to, step) ==
    LET x == get_closer_f64(self[1], to[1], step[1])
        y == get_closer_f64(self[2], to[2], step[2])
    IN  <<<<x[1], y[1]>>, x[2] /\ y[2]>>

\* Position::make_step_point: the Position after it, and reached.
make_step_point(pos, to, offset_scale) ==
    LET r == get_closer_point(pos.point, to.point,
                              <<FDiv(offset_scale[1], pos.zoom),
                                FDiv(offset_scale[2], pos.zoom)>>)
    IN  [pos |-> [pos EXCEPT !.point = r[1]], reached |-> r[2]]

\* Position::make_step_zoom_and_limit
make_step_zoom_and_limit(pos, to, zoom_scale, limit_scale) ==
    LET z == get_closer_f64(pos.zoom, to.zoom, FMul(pos.zoom, zoom_scale))
        limit_step == Max(as_u32(FMul(FMul(F(pos.limit), zoom_scale), limit_scale)), 1)
        limit == IF z[2]
                 THEN to.limit
                 ELSE IF pos.limit # to.limit
                      THEN get_closer_u32(pos.limit, to.limit, limit_step)[1]
                      ELSE pos.limit
    IN  [pos |-> [pos EXCEPT !.zoom = z[1], !.limit = limit], reached |-> z[2]]

\* A mutant of make_step: & in place of &&, so both sub-steps run in every
\* call.
make_step_both(pos, to, offset_scale, zoom_scale, limit_scale) ==
    IF pos.zoom < to.zoom
    THEN LET p == make_step_point(pos, to, offset_scale)
             z == make_step_zoom_and_limit(p.pos, to, zoom_scale, limit_scale)
         IN  [pos |-> z.pos, reached |-> p.reached /\ z.reached,
              calls |-> <<"point", "zoom">>,
              point_reached |-> p.reached, zoom_reached |-> z.reached]
    ELSE LET z == make_step_zoom_and_limit(pos, to, zoom_scale, limit_scale)
             p == make_step_point(z.pos, to, offset_scale)
         IN  [pos |-> p.pos, reached |-> z.reached /\ p.reached,
              calls |-> <<"zoom", "point">>,
              point_reached |-> p.reached, zoom_reached |-> z.reached]

\* A mutant of make_step: || in place of &&, so one reached sub-step is
\* enough and the other does not run.
make_step_either(pos, to, offset_scale, zoom_scale, limit_scale) ==
    IF pos.zoom < to.zoom
    THEN LET p == make_step_point(pos, to, offset_scale) IN
         IF p.reached
         THEN [pos |-> p.pos, reached |-> TRUE, calls |-> <<"point">>,
               point_reached |-> TRUE, zoom_reached |-> FALSE]
         ELSE LET z == make_step_zoom_and_limit(p.pos, to, zoom_scale, limit_scale) IN
              [pos |-> z.pos, reached |-> z.reached, calls |-> <<"point", "zoom">>,
               point_reached |-> FALSE, zoom_reached |-> z.reached]
    ELSE LET z == make_step_zoom_and_limit(pos, to, zoom_scale, limit_scale) IN
         IF z.reached
         THEN [pos |-> z.pos, reached |-> TRUE, calls |-> <<"zoom">>,
               point_reached |-> FALSE, zoom_reached |-> TRUE]
         ELSE LET p == make_step_point(z.pos, to, offset_scale) IN
              [pos |-> p.pos, reached |-> p.reached, calls |-> <<"zoom", "point">>,
               point_reached |-> p.reached, zoom_reached |-> FALSE]

\* Position::make_step.  && does not evaluate its right operand when the left
\* one is false.  calls tells which sub-steps ran, in their order.
make_step(pos, to, offset_scale, zoom_scale, limit_scale) ==
    IF pos.zoom < to.zoom
    THEN LET p == make_step_point(pos, to, offset_scale) IN
         IF p.reached
         THEN LET z == make_step_zoom_and_limit(p.pos, to, zoom_scale, limit_scale) IN
              [pos |-> z.pos, reached |-> z.reached, calls |-> <<"point", "zoom">>,
               point_reached |-> TRUE, zoom_reached |-> z.reached]
         ELSE [pos |-> p.pos, reached |-> FALSE, calls |-> <<"point">>,
               point_reached |-> FALSE, zoom_reached |-> FALSE]
    ELSE LET z == make_step_zoom_and_limit(pos, to, zoom_scale, limit_scale) IN
         IF z.reached
         THEN LET p == make_step_point(z.pos, to, offset_scale) IN
              [pos |-> p.pos, reached |-> p.reached, calls |-> <<"zoom", "point">>,
               point_reached |-> p.reached, zoom_reached |-> TRUE]
         ELSE [pos |-> z.pos, reached |-> FALSE, calls |-> <<"zoom">>,
               point_reached |-> FALSE, zoom_reached |-> FALSE]

\* f64::clamp and Ord::clamp, which panic unless min <= max.
clamp(v, min, max) == IF v < min THEN min ELSE IF v > max THEN max ELSE v

\* Position::clamp_zoom
clamp_zoom(pos, min, max) == [pos EXCEPT !.zoom = clamp(pos.zoom, min, max)]

\* Position::clamp_limit
clamp_limit(pos, min, max) == [pos EXCEPT !.limit = clamp(pos.limit, min, max)]

\* Position::left, right, up, down: the point moves by offset_scale / zoom.
left(pos, offset_scale) ==
    [pos EXCEPT !.point[1] = @ - FDiv(offset_scale, pos.zoom)]

right(pos, offset_scale) ==
    [pos EXCEPT !.point[1] = @ + FDiv(offset_scale, pos.zoom)]

up(pos, offset_scale) ==
    [pos EXCEPT !.point[2] = @ + FDiv(offset_scale, pos.zoom)]

down(pos, offset_scale) ==
    [pos EXCEPT !.point[2] = @ - FDiv(offset_scale, pos.zoom)]

\* Position::translate
translate(pos, offset_scale) ==
    [pos EXCEPT !.point = <<@[1] + FDiv(offset_scale[1], pos.zoom),
                            @[2] + FDiv(offset_scale[2], pos.zoom)>>]

\* Position::change_zoom: self.zoom += self.zoom * zoom_scale
change_zoom(pos, zoom_scale) ==
    [pos EXCEPT !.zoom = @ + FMul(@, zoom_scale)]

\* Position::update_limit: self.limit = (self.zoom * limit_scale) as u32
update_limit(pos, limit_scale) ==
    [pos EXCEPT !.limit = as_u32(FMul(pos.zoom, limit_scale))]

\* PositionController::clamp_zoom and clamp_limit
controller_clamp_zoom(c) ==
    [c EXCEPT !.pos = clamp_zoom(@, c.min_zoom, c.max_zoom)]

controller_clamp_limit(c) ==
    [c EXCEPT !.pos = clamp_limit(@, c.min_limit, c.max_limit)]

\* A mutant of controller_change_zoom: the clamp is left out.
controller_change_zoom_unclamped(c, zoom_scale) ==
    [c EXCEPT !.pos = change_zoom(@, zoom_scale)]

\* PositionController::change_zoom
controller_change_zoom(c, zoom_scale) ==
    controller_clamp_zoom([c EXCEPT !.pos = change_zoom(@, zoom_scale)])

\* PositionController::increase_zoom and decrease_zoom
increase_zoom(c) == controller_change_zoom(c, c.zoom_scale)

decrease_zoom(c) == controller_change_zoom(c, -c.zoom_scale)

\* PositionController::update_limit
controller_update_limit(c) ==
    controller_clamp_limit([c EXCEPT !.pos = update_limit(@, c.limit_scale)])

\* A mutant of controller_make_step: the step is followed by the clamps.
controller_make_step_clamped(c, to) ==
    LET r == make_step(c.pos, to, c.step, c.zoom_scale, c.limit_scale)
    IN  [r EXCEPT !.pos = clamp_limit(clamp_zoom(r.pos, c.min_zoom, c.max_zoom),
                                      c.min_limit, c.max_limit)]

\* PositionController::make_step
controller_make_step(c, to) ==
    make_step(c.pos, to, c.step, c.zoom_scale, c.limit_scale)

\* A mutant of get_point_offset: the block's half is taken of the f64, not of
\* the u32.
get_point_offset_float_half(width, height, viewport_offset_scale, smooth) ==
    LET scale == IF IsSome(viewport_offset_scale)
                 THEN Unwrap(viewport_offset_scale)
                 ELSE <<Half, Half>>
        viewport_offset == <<FMul(F(width), -scale[1]), FMul(F(height), -scale[2])>>
        rect_offset == IF IsSome(smooth)
                       THEN <<FDiv(F(Unwrap(smooth)[1]), F(2)),
                              FDiv(F(Unwrap(smooth)[2]), F(2))>>
                       ELSE <<0, 0>>
    IN  <<viewport_offset[1] + rect_offset[1], viewport_offset[2] + rect_offset[2]>>

\* A mutant of get_point_offset: the half of the block is left out.
get_point_offset_no_rect(width, height, viewport_offset_scale, smooth) ==
    LET scale == IF IsSome(viewport_offset_scale)
                 THEN Unwrap(viewport_offset_scale)
                 ELSE <<Half, Half>>
    IN  <<FMul(F(width), -scale[1]), FMul(F(height), -scale[2])>>

get_point_offset(width, height, viewport_offset_scale, smooth) ==
    LET scale == IF IsSome(viewport_offset_scale)
                 THEN Unwrap(viewport_offset_scale)
                 ELSE <<Half, Half>>
        viewport_offset == <<FMul(F(width), -scale[1]), FMul(F(height), -scale[2])>>
        rect_offset == IF IsSome(smooth)
                       THEN <<F(Unwrap(smooth)[1] \div 2), F(Unwrap(smooth)[2] \div 2)>>
                       ELSE <<0, 0>>
    IN  <<viewport_offset[1] + rect_offset[1], viewport_offset[2] + rect_offset[2]>>

\* transform_index_to_item with convert = |iter| iter (build / par_build).
transform_index_to_item(pos, point_offset, index) ==
    LET point == <<F(index[1]) + point_offset[1], F(index[2]) + point_offset[2]>>
        complex == as_complex_with_offset(pos, point)
    IN  compute_iterations(complex[1], complex[2], pos.limit)

\* Iterator::step_by asserts step != 0 when the adapter is made, before any
\* item is asked for: indexes_step_by panics on a block with a zero side.
step_by_panics(step_x, step_y) == step_x = 0 \/ step_y = 0

\* A mutant of indexes_step_by: every index is taken, whatever the steps.
indexes_step_by_every_index(width, height, step_x, step_y) ==
    flip(cross_join(RangeSeq(height), RangeSeq(width)))

indexes_step_by(width, height, step_x, step_y) ==
    flip(cross_join(step_by(height, step_y), step_by(width, step_x)))

\* A mutant of group_indexes: the filter x < width && y < height is left out.
group_indexes_unclipped(width, height, step_x, step_y, x, y) ==
    LET rect == flip(cross_join(RangeSeq(step_y), RangeSeq(step_x)))
    IN  [i \in 1 .. Len(rect) |-> <<x + rect[i][1], y + rect[i][2]>>]

\* The members of the block whose top-left index is (x, y).
group_indexes(width, height, step_x, step_y, x, y) ==
    LET rect == flip(cross_join(RangeSeq(step_y), RangeSeq(step_x)))
        moved == [i \in 1 .. Len(rect) |-> <<x + rect[i][1], y + rect[i][2]>>]
        InGrid(p) == p[1] < width /\ p[2] < height
    IN  SelectSeq(moved, InGrid)

index_groups(width, height, step_x, step_y) ==
    LET d == duplicate(indexes_step_by(width, height, step_x, step_y))
    IN  [i \in 1 .. Len(d) |->
            <<d[i][1],
              group_indexes(width, height, step_x, step_y, d[i][2][1], d[i][2][2])>>]

\* for (x, y) in indexes { self.set(x, y, item.clone()) }
RECURSIVE set_all(_, _, _)
set_all(r, idxs, item) ==
    IF idxs = <<>> \/ r.panic
    THEN r
    ELSE set_all(set(r.matrix, Head(idxs)[1], Head(idxs)[2], item), Tail(idxs), item)

\* The smoothed loop of build_image over the remaining groups.
RECURSIVE build_smooth(_, _, _, _)
build_smooth(r, pos, point_offset, groups) ==
    IF groups = <<>> \/ r.panic
    THEN r
    ELSE build_smooth(
            set_all(r, Head(groups)[2],
                    transform_index_to_item(pos, point_offset, Head(groups)[1])),
            pos, point_offset, Tail(groups))

\* The non-smoothed loop of build_image over the remaining pairs_mut.
RECURSIVE build_plain(_, _, _, _)
build_plain(mx, pos, point_offset, prs) ==
    IF prs = <<>>
    THEN mx
    ELSE build_plain(
            write_slot(mx, Head(prs)[2],
                       transform_index_to_item(pos, point_offset, Head(prs)[1])),
            pos, point_offset, Tail(prs))

\* MandelbrotSetImage::build_image with convert the identity (MandelbrotSet::build).
\* options is [viewport_offset_scale, smooth].
build_image(mx, pos, options) ==
    LET point_offset == get_point_offset(mx.width, mx.height,
                                         options.viewport_offset_scale, options.smooth)
    IN  IF IsSome(options.smooth)
        THEN IF step_by_panics(Unwrap(options.smooth)[1], Unwrap(options.smooth)[2])
        THEN [panic |-> TRUE, matrix |-> mx]
        ELSE build_smooth([panic |-> FALSE, matrix |-> mx], pos, point_offset,
                          index_groups(mx.width, mx.height,
                                       Unwrap(options.smooth)[1], Unwrap(options.smooth)[2]))
        ELSE [panic |-> FALSE,
              matrix |-> build_plain(mx, pos, point_offset, pairs_mut(mx))]

\* The jobs par_build_image feeds the pipeline: pairs_mut() without smoothing,
\* index_groups() with it.  A job is <<index, dest>>: dest is the slot the
\* &mut T refers to, or the indexes of the block.
par_items(mx, options) ==
    IF IsSome(options.smooth)
    THEN IF step_by_panics(Unwrap(options.smooth)[1], Unwrap(options.smooth)[2])
    THEN <<>>
    ELSE index_groups(mx.width, mx.height,
                      Unwrap(options.smooth)[1], Unwrap(options.smooth)[2])
    ELSE pairs_mut(mx)

\* The indexes transform_index_to_item is applied to by a build, in order:
\* one per job (map_first over index_groups or over pairs_mut).
evaluated_indexes(mx, options) ==
    [i \in 1 .. Len(par_items(mx, options)) |-> par_items(mx, options)[i][1]]

\* A mutant of par_map: the parallel path leaves the point offset out.
par_map_no_offset(mx, pos, options, job) ==
    <<transform_index_to_item(pos, <<0, 0>>, job[1]), job[2]>>

\* A mutant of par_map: the parallel path takes the point offset of a build
\* without smoothing.
par_map_plain_offset(mx, pos, options, job) ==
    <<transform_index_to_item(
          pos,
          get_point_offset(mx.width, mx.height, options.viewport_offset_scale, None),
          job[1]),
      job[2]>>

\* The map closure of par_build_image: (index, dest) -> (item, dest).
par_map(mx, pos, options, job) ==
    <<transform_index_to_item(
          pos,
          get_point_offset(mx.width, mx.height,
                           options.viewport_offset_scale, options.smooth),
          job[1]),
      job[2]>>

\* A mutant of par_consume: with smoothing only the first index of the block
\* is written, the value is not broadcast.
par_consume_first_only(mx, options, result) ==
    IF IsSome(options.smooth)
    THEN LET r == set_all([panic |-> FALSE, matrix |-> mx],
                          SubSeq(result[2], 1, 1), result[1])
         IN  [panic |-> r.panic, matrix |-> r.matrix,
              slots |-> [i \in 1 .. 1 |->
                            data_index(mx, result[2][i][1], result[2][i][2])]]
    ELSE [panic |-> FALSE, matrix |-> write_slot(mx, result[2], result[1]),
          slots |-> <<result[2]>>]

\* The body of the consumer's loop for one received (item, dest): the grid
\* after it, and the slots it wrote.
par_consume(mx, options, result) ==
    IF IsSome(options.smooth)
    THEN LET r == set_all([panic |-> FALSE, matrix |-> mx], result[2], result[1])
         IN  [panic |-> r.panic, matrix |-> r.matrix,
              slots |-> IF r.panic THEN <<>>
                        ELSE [i \in 1 .. Len(result[2]) |->
                                 data_index(mx, result[2][i][1], result[2][i][2])]]
    ELSE [panic |-> FALSE, matrix |-> write_slot(mx, result[2], result[1]),
          slots |-> <<result[2]>>]

\* ------------------------------------------------------------- model inputs

GridSizes == {wh \in (0 .. MaxCells) \X (0 .. MaxCells) : wh[1] * wh[2] <= MaxCells}

CellValues == {Iteration_Infinite, Iteration_Finite(0)}

\* Raw storage of length n: filled with one value, or the two alternating.
Storages(n) ==
    {[i \in 1 .. n |-> v] : v \in CellValues}
        \cup {[i \in 1 .. n |-> IF i % 2 = 1 THEN Iteration_Finite(0) ELSE Iteration_Infinite]}

\* Storage whose cells all differ: cell k holds Finite(k).
Counting(n) == [i \in 1 .. n |-> Iteration_Finite(i - 1)]

\* The storage lengths tried against width x height: the matching one and its
\* neighbours.
RawLengths(width, height) ==
    {n \in 0 .. (MaxCells + 1) : n - width * height \in {-1, 0, 1}}

BuildPositions ==
    { [point |-> <<F(1), F(1)>>, zoom |-> F(1), limit |-> 3],
      [point |-> <<F(1), 0>>, zoom |-> F(2), limit |-> 3] }

SmoothOptions ==
    {None} \cup {Some(<<sx, sy>>) : sx \in 1 .. MaxSmooth, sy \in 1 .. MaxSmooth}

BuildOptions ==
    [viewport_offset_scale : {None, Some(<<0, 0>>)}, smooth : SmoothOptions]

\* The builds run on the grid under its operations.
GridBuildPosition == [point |-> <<F(1), F(1)>>, zoom |-> F(1), limit |-> 3]

GridBuildOptions ==
    [viewport_offset_scale : {None}, smooth : {None, Some(<<MaxSmooth, MaxSmooth>>)}]

Unused == <<>>

\* ============================================================ grid operations
\* A grid from its construction on, under its mutating operations.  A panic is
\* fatal: nothing runs after it.  ret keeps the width and height the grid was
\* constructed with.

GridRet(op, failed) ==
    [op |-> op, panic |-> failed, width |-> ret.width, height |-> ret.height]

\* VecMatrix::new(width, height)
New ==
    \E wh \in GridSizes :
        /\ m = new(wh[1], wh[2])
        /\ ret = [op |-> "new", panic |-> FALSE, width |-> wh[1], height |-> wh[2]]

\* VecMatrix::new_with(width, height, f)
NewWith ==
    \E wh \in GridSizes, f \in CellValues :
        /\ m = new_with(wh[1], wh[2], f)
        /\ ret = [op |-> "new_with", panic |-> FALSE, width |-> wh[1], height |-> wh[2]]

\* Matrix::try_from_raw(width, height, data) returning Ok(grid)
TryFromRaw ==
    \E wh \in GridSizes : \E n \in RawLengths(wh[1], wh[2]) : \E data \in Storages(n) :
        LET r == try_from_raw(wh[1], wh[2], data) IN
        /\ r.ok
        /\ m = r.matrix
        /\ ret = [op |-> "try_from_raw", panic |-> FALSE,
                  width |-> wh[1], height |-> wh[2]]

GridInit ==
    /\ (New \/ NewWith \/ TryFromRaw)
    /\ args = Unused
    /\ pipe = Unused /\ ctl = Unused /\ target = Unused /\ step_ret = Unused

GridFrame == UNCHANGED <<args, pipe, ctl, target, step_ret>>

Alive == ret.panic = FALSE

Set ==
    /\ Alive
    /\ \E x \in 0 .. m.width, y \in 0 .. m.height, v \in CellValues :
         LET r == set(m, x, y, v) IN
         /\ m' = r.matrix
         /\ ret' = GridRet("set", r.panic)
    /\ GridFrame

SetChecked ==
    /\ Alive
    /\ \E x \in 0 .. m.width, y \in 0 .. m.height, v \in CellValues :
         LET r == set_checked(m, x, y, v) IN
         /\ m' = r.matrix
         /\ ret' = GridRet(IF r.ok THEN "set_checked_ok" ELSE "set_checked_err", FALSE)
    /\ GridFrame

\* *grid.get_mut(x, y) = v
GetMutWrite ==
    /\ Alive
    /\ \E x \in 0 .. m.width, y \in 0 .. m.height, v \in CellValues :
         LET r == get_mut(m, x, y) IN
         /\ m' = IF r.panic THEN m ELSE write_slot(m, r.slot, v)
         /\ ret' = GridRet("get_mut", r.panic)
    /\ GridFrame

Clear ==
    /\ Alive
    /\ m' = clear(m)
    /\ ret' = GridRet("clear", FALSE)
    /\ GridFrame

\* A write through one of the references values_mut() yields.
ValuesMutWrite ==
    /\ Alive
    /\ \E k \in 1 .. Len(m.data), v \in CellValues :
         m' = write_slot(m, k - 1, v)
    /\ ret' = GridRet("values_mut", FALSE)
    /\ GridFrame

\* A write through the reference of one of the pairs pairs_mut() yields.
PairsMutWrite ==
    /\ Alive
    /\ \E k \in 1 .. Len(pairs_mut(m)), v \in CellValues :
         m' = write_slot(m, pairs_mut(m)[k][2], v)
    /\ ret' = GridRet("pairs_mut", FALSE)
    /\ GridFrame

\* The sequential build.
Build ==
    /\ Alive
    /\ \E options \in GridBuildOptions :
         LET r == build_image(m, GridBuildPosition, options) IN
         /\ m' = r.matrix
         /\ ret' = GridRet("build", r.panic)
    /\ GridFrame

\* One write of the parallel build's consumer: the result of any one job, in
\* any order (the pipeline delivers results in completion order).
ParBuildWrite ==
    /\ Alive
    /\ \E options \in GridBuildOptions :
         \E k \in 1 .. Len(par_items(m, options)) :
           LET r == par_consume(m, options,
                                par_map(m, GridBuildPosition, options,
                                        par_items(m, options)[k])) IN
           /\ m' = r.matrix
           /\ ret' = GridRet("par_build", r.panic)
    /\ GridFrame

GridNext ==
    \/ Set
    \/ SetChecked
    \/ GetMutWrite
    \/ Clear
    \/ ValuesMutWrite
    \/ PairsMutWrite
    \/ Build
    \/ ParBuildWrite

SpecGrid == GridInit /\ [][GridNext]_vars

\* ========================================================= the parallel build
\* par_build_image through utils::pipeline: the calling thread (spawner, then
\* consumer), one producer thread and the worker threads, over two bounded
\* crossbeam channels.  In this specification m is the grid under construction
\* and args the build call's arguments.

Stale == Iteration_Finite(9)

ParSmoothOptions == {None, Some(<<2, 1>>), Some(<<MaxSmooth, MaxSmooth>>)}

\* workers: Option<u32>, with the num_cpus::get() it falls back to.
WorkerOptions ==
    {[workers |-> None, num_cpus |-> c] : c \in 1 .. MaxCpus}
        \cup {[workers |-> Some(k), num_cpus |-> 1] : k \in 0 .. MaxWorkersOpt}

saturating_sub(a, b) == IF a > b THEN a - b ELSE 0

\* let workers = workers.map(..).unwrap_or_else(num_cpus::get).saturating_sub(1).max(1)
worker_count(workers, num_cpus) ==
    Max(saturating_sub(IF IsSome(workers) THEN Unwrap(workers) ELSE num_cpus, 1), 1)

channel_cap(workers) == workers * 2

Workers == 1 .. pipe.workers

Terminated(pc) == pc \in {"done", "panicked"}

\* item_snd lives in the producer thread alone.
ItemSendersAlive == ~Terminated(pipe.producer)

\* item_recv: the original, owned by the scope closure, and a clone per worker.
ItemReceiversAlive ==
    \/ pipe.item_recv
    \/ \E w \in Workers : pipe.wk[w].pc \in {"recv", "send"}

\* result_snd: the original, until drop(result_snd), and a clone per worker.
ResultSendersAlive ==
    \/ pipe.result_snd
    \/ \E w \in Workers : pipe.wk[w].pc \in {"recv", "send"}

\* result_recv is owned by the consumer's loop.
ResultReceiversAlive == pipe.result_recv

RECURSIVE count_writes(_, _)
count_writes(writes, slots) ==
    IF slots = <<>>
    THEN writes
    ELSE count_writes([writes EXCEPT ![Head(slots) + 1] = @ + 1], Tail(slots))

\* A mutant of scope_result: only the producer's panic is looked at.
scope_result_producer_only ==
    IF pipe.producer = "panicked" THEN "Err" ELSE "Ok"

\* What crossbeam::scope returns once every thread is joined.
scope_result ==
    IF \/ pipe.producer = "panicked"
       \/ \E w \in Workers : pipe.wk[w].pc = "panicked"
    THEN "Err"
    ELSE "Ok"

Init ==
    /\ \E wh \in GridSizes, options \in [viewport_offset_scale : {None},
                                          smooth : ParSmoothOptions],
          pos \in BuildPositions, wo \in WorkerOptions, faulty \in BOOLEAN :
         /\ m = new_with(wh[1], wh[2], Stale)
         /\ args = [grid |-> new_with(wh[1], wh[2], Stale),
                    pos |-> pos,
                    options |-> options,
                    workers |-> wo.workers,
                    num_cpus |-> wo.num_cpus,
                    faulty |-> faulty]
         /\ pipe = [workers |-> worker_count(wo.workers, wo.num_cpus),
                    cap |-> channel_cap(worker_count(wo.workers, wo.num_cpus)),
                    items |-> par_items(new_with(wh[1], wh[2], Stale), options),
                    main |-> "spawn_producer",
                    spawned |-> 0,
                    producer |-> "unspawned",
                    next |-> 1,
                    item_q |-> <<>>,
                    result_q |-> <<>>,
                    item_recv |-> TRUE,
                    result_snd |-> TRUE,
                    result_recv |-> TRUE,
                    wk |-> [w \in 1 .. worker_count(wo.workers, wo.num_cpus) |->
                              [pc |-> "unspawned", hold |-> <<>>]],
                    writes |-> [k \in 1 .. (wh[1] * wh[2]) |-> 0],
                    result |-> "none"]
    /\ ret = Unused
    /\ ctl = Unused /\ target = Unused /\ step_ret = Unused

PipeFrame == UNCHANGED <<ret, args, ctl, target, step_ret>>

\* s.spawn(move |_| { for item in items { item_snd.send(item).unwrap(); } })
CanSpawnProducer == pipe.main = "spawn_producer"

SpawnProducer ==
    /\ CanSpawnProducer
    /\ pipe' = [pipe EXCEPT !.main = "spawn_workers", !.producer = "run"]
    /\ UNCHANGED m
    /\ PipeFrame

\* One round of for _ in 0..workers { ...clone...; s.spawn(..) }
CanSpawnWorker == pipe.main = "spawn_workers" /\ pipe.spawned < pipe.workers

SpawnWorker ==
    /\ CanSpawnWorker
    /\ pipe' = [pipe EXCEPT !.spawned = @ + 1,
                            !.wk[pipe.spawned + 1].pc = "recv"]
    /\ UNCHANGED m
    /\ PipeFrame

CanDropResultSnd == pipe.main = "spawn_workers" /\ pipe.spawned = pipe.workers

\* A mutant of DropResultSnd: the drop is missing, the original sender lives on.
DropResultSnd_missing ==
    /\ CanDropResultSnd
    /\ pipe' = [pipe EXCEPT !.main = "consume"]
    /\ UNCHANGED m
    /\ UNCHANGED <<ret, args, ctl, target, step_ret>>

\* drop(result_snd), before action(result_recv)
DropResultSnd ==
    /\ CanDropResultSnd
    /\ pipe' = [pipe EXCEPT !.main = "consume", !.result_snd = FALSE]
    /\ UNCHANGED m
    /\ PipeFrame

\* A mutant of CanProducerSend: the send does not wait for room in the channel.
CanProducerSend_unbounded ==
    /\ pipe.producer = "run"
    /\ pipe.next <= Len(pipe.items)

\* The producer: item_snd.send(item).unwrap().  A bounded send blocks while
\* the channel is full and fails once every receiver is gone.
CanProducerSend ==
    /\ pipe.producer = "run"
    /\ pipe.next <= Len(pipe.items)
    /\ ~ItemReceiversAlive \/ Len(pipe.item_q) < pipe.cap

ProducerSend ==
    /\ CanProducerSend
    /\ IF ~ItemReceiversAlive
       THEN pipe' = [pipe EXCEPT !.producer = "panicked"]
       ELSE pipe' = [pipe EXCEPT !.item_q = Append(@, pipe.items[pipe.next]),
                               !.next = @ + 1]
    /\ UNCHANGED m
    /\ PipeFrame

\* The producer's loop is over: the thread ends and item_snd is dropped.
CanProducerDone == pipe.producer = "run" /\ pipe.next > Len(pipe.items)

ProducerDone ==
    /\ CanProducerDone
    /\ pipe' = [pipe EXCEPT !.producer = "done"]
    /\ UNCHANGED m
    /\ PipeFrame

\* A worker receives an item and maps it: for item in item_recv { map(item) }.
\* The map faults only where the caller's convert can.
CanWorkerMap(w) == pipe.wk[w].pc = "recv" /\ pipe.item_q # <<>>

\* A mutant of WorkerMap: the worker stores the value through the destination
\* it was handed.
WorkerMap_writes(w) ==
    /\ CanWorkerMap(w)
    /\ LET result == par_map(m, args.pos, args.options, Head(pipe.item_q)) IN
         /\ pipe' = [pipe EXCEPT !.item_q = Tail(@),
                                 !.wk[w] = [pc |-> "send", hold |-> result]]
         /\ m' = par_consume(m, args.options, result).matrix
    /\ PipeFrame

WorkerMap(w) ==
    /\ CanWorkerMap(w)
    /\ \/ pipe' = [pipe EXCEPT !.item_q = Tail(@),
                               !.wk[w] = [pc |-> "send",
                                          hold |-> par_map(m, args.pos, args.options,
                                                           Head(pipe.item_q))]]
       \/ /\ args.faulty
          /\ pipe' = [pipe EXCEPT !.item_q = Tail(@),
                                  !.wk[w] = [pc |-> "panicked", hold |-> <<>>]]
    /\ UNCHANGED m
    /\ PipeFrame

\* The item channel is empty and disconnected: the worker's loop ends.
CanWorkerDone(w) ==
    /\ pipe.wk[w].pc = "recv"
    /\ pipe.item_q = <<>>
    /\ ~ItemSendersAlive

WorkerDone(w) ==
    /\ CanWorkerDone(w)
    /\ pipe' = [pipe EXCEPT !.wk[w].pc = "done"]
    /\ UNCHANGED m
    /\ PipeFrame

\* result_snd.send(result).unwrap()
CanWorkerSend(w) ==
    /\ pipe.wk[w].pc = "send"
    /\ ~ResultReceiversAlive \/ Len(pipe.result_q) < pipe.cap

WorkerSend(w) ==
    /\ CanWorkerSend(w)
    /\ IF ~ResultReceiversAlive
       THEN pipe' = [pipe EXCEPT !.wk[w] = [pc |-> "panicked", hold |-> <<>>]]
       ELSE pipe' = [pipe EXCEPT !.result_q = Append(@, pipe.wk[w].hold),
                               !.wk[w] = [pc |-> "recv", hold |-> <<>>]]
    /\ UNCHANGED m
    /\ PipeFrame

\* One round of the consumer's loop: for (item, dest) in recv.into_iter().
\* A panic of the closure is resumed by crossbeam::scope after the join.
CanConsume == pipe.main = "consume" /\ pipe.result_q # <<>>

Consume ==
    /\ CanConsume
    /\ LET result == Head(pipe.result_q)
           r == par_consume(m, args.options, result)
       IN  IF r.panic
           THEN /\ pipe' = [pipe EXCEPT !.result_q = Tail(@),
                                        !.main = "unwinding",
                                        !.result_recv = FALSE,
                                        !.item_recv = FALSE]
                /\ UNCHANGED m
           ELSE /\ pipe' = [pipe EXCEPT !.result_q = Tail(@),
                                        !.writes = count_writes(@, r.slots)]
                /\ m' = r.matrix
    /\ PipeFrame

\* The result channel is empty and disconnected: the loop ends, action returns
\* and the scope closure with it, dropping result_recv and item_recv.
CanConsumeDone ==
    /\ pipe.main = "consume"
    /\ pipe.result_q = <<>>
    /\ ~ResultSendersAlive

\* A mutant of ConsumeDone: the scope's item_recv outlives the closure.
ConsumeDone_keeps_item_recv ==
    /\ CanConsumeDone
    /\ pipe' = [pipe EXCEPT !.main = "join", !.result_recv = FALSE]
    /\ UNCHANGED m
    /\ UNCHANGED <<ret, args, ctl, target, step_ret>>

ConsumeDone ==
    /\ CanConsumeDone
    /\ pipe' = [pipe EXCEPT !.main = "join", !.result_recv = FALSE, !.item_recv = FALSE]
    /\ UNCHANGED m
    /\ PipeFrame

\* A mutant of CanJoin: the scope returns without waiting for its threads.
CanJoin_no_wait == pipe.main \in {"join", "unwinding"}

\* crossbeam::scope joins every spawned thread, then returns.
CanJoin ==
    /\ pipe.main \in {"join", "unwinding"}
    /\ Terminated(pipe.producer)
    /\ \A w \in Workers : Terminated(pipe.wk[w].pc)

Join ==
    /\ CanJoin
    /\ pipe' = [pipe EXCEPT !.main = "done",
                            !.result = IF pipe.main = "unwinding" THEN "panic"
                                       ELSE scope_result]
    /\ UNCHANGED m
    /\ PipeFrame

Next ==
    \/ SpawnProducer
    \/ SpawnWorker
    \/ DropResultSnd
    \/ ProducerSend
    \/ ProducerDone
    \/ \E w \in Workers : WorkerMap(w)
    \/ \E w \in Workers : WorkerDone(w)
    \/ \E w \in Workers : WorkerSend(w)
    \/ Consume
    \/ ConsumeDone
    \/ Join

Spec == Init /\ [][Next]_vars

\* Some thread can take a step: the disjunction of the actions' guards.
SomeThreadCanStep ==
    \/ CanSpawnProducer
    \/ CanSpawnWorker
    \/ CanDropResultSnd
    \/ CanProducerSend
    \/ CanProducerDone
    \/ \E w \in Workers : CanWorkerMap(w) \/ CanWorkerDone(w) \/ CanWorkerSend(w)
    \/ CanConsume
    \/ CanConsumeDone
    \/ CanJoin

\* The work left: what each thread has still to do, and how far each item is
\* from having been consumed.
PcWeight(pc) ==
    CASE pc = "unspawned" -> 2
      [] pc \in {"run", "recv", "send"} -> 1
      [] OTHER -> 0

MainWeight ==
    CASE pipe.main = "spawn_producer" -> 4
      [] pipe.main = "spawn_workers" -> 3
      [] pipe.main = "consume" -> 2
      [] pipe.main \in {"join", "unwinding"} -> 1
      [] OTHER -> 0

RECURSIVE SumWeights(_)
SumWeights(n) == IF n = 0 THEN 0 ELSE PcWeight(pipe.wk[n].pc) + SumWeights(n - 1)

WorkLeft ==
    MainWeight + PcWeight(pipe.producer) + SumWeights(pipe.workers)
        + 4 * (Len(pipe.items) + 1 - pipe.next)
        + 3 * Len(pipe.item_q)
        + 2 * Cardinality({w \in Workers : pipe.wk[w].pc = "send"})
        + Len(pipe.result_q)

Returned == pipe.main = "done"

\* C1: the parallel non-smoothed build, with a map that cannot fault
\* (par_build), returns Ok and leaves the grid the sequential build leaves.
C1_ParBuildEqualsBuild ==
    (Returned /\ ~IsSome(args.options.smooth) /\ ~args.faulty) =>
        /\ pipe.result = "Ok"
        /\ m = build_image(args.grid, args.pos, args.options).matrix

\* A 2x2 grid built by two workers without smoothing.
C1_Witness ==
    /\ Returned
    /\ ~IsSome(args.options.smooth) /\ ~args.faulty
    /\ pipe.workers = 2
    /\ m.width = 2 /\ m.height = 2
    /\ m.data[2] = Iteration_Finite(1) /\ m.data[4] = Iteration_Finite(2)

\* The top-left index of the block the cell of slot k belongs to (the cell's
\* own index without smoothing).
BlockIndex(k) ==
    LET x == (k - 1) % m.width
        y == (k - 1) \div m.width
        sx == IF IsSome(args.options.smooth) THEN Unwrap(args.options.smooth)[1] ELSE 1
        sy == IF IsSome(args.options.smooth) THEN Unwrap(args.options.smooth)[2] ELSE 1
    IN  <<x - (x % sx), y - (y % sy)>>

\* C2: a parallel build returns Ok or Err; when it returns Ok every cell was
\* written exactly once, with the value of its index (of its block's index).
C2_EveryCellWrittenOnce ==
    /\ Returned => pipe.result \in {"Ok", "Err"}
    /\ pipe.result = "Ok" =>
         \A k \in 1 .. Len(m.data) :
            /\ pipe.writes[k] = 1
            /\ m.data[k] = transform_index_to_item(
                               args.pos,
                               get_point_offset(m.width, m.height,
                                                args.options.viewport_offset_scale,
                                                args.options.smooth),
                               BlockIndex(k))

\* A smoothed 2x2 build with blocks of 2x1 that returned Ok although the
\* caller's convert may fault.
C2_Witness ==
    /\ pipe.result = "Ok"
    /\ args.options.smooth = Some(<<2, 1>>)
    /\ args.faulty
    /\ m.width = 2 /\ m.height = 2
    /\ pipe.writes = <<1, 1, 1, 1>>

\* C3: a parallel build whose map never faults terminates with Ok: until it
\* has returned some thread can take a step (no interleaving deadlocks), every
\* step takes from the work left (no thread spins), and what it returns is Ok.
C3_TerminatesOk ==
    /\ []((~args.faulty /\ ~Returned) => SomeThreadCanStep)
    /\ []((~args.faulty /\ Returned) => pipe.result = "Ok")
    /\ [][~args.faulty => WorkLeft' < WorkLeft]_vars

\* A build that returned Ok with more items than the item channel holds (the
\* producer had to wait), the workers option being unspecified.
C3_Witness ==
    /\ Returned /\ pipe.result = "Ok"
    /\ ~args.faulty
    /\ args.workers = None
    /\ Len(pipe.items) > pipe.cap

\* C4: after a fault in a worker the build never returns Ok: it returns Err.
C4_WorkerFaultGivesErr ==
    (\E w \in Workers : pipe.wk[w].pc = "panicked") =>
        /\ pipe.result # "Ok"
        /\ Returned => pipe.result = "Err"

\* The build returned Err after one worker faulted and another ran to its end,
\* with a part of the grid written.
C4_Witness ==
    /\ Returned /\ pipe.result = "Err"
    /\ \E w \in Workers : pipe.wk[w].pc = "panicked"
    /\ \E w \in Workers : pipe.wk[w].pc = "done"
    /\ \E k \in 1 .. Len(m.data) : pipe.writes[k] = 1


\* ============================================================== the stepping
\* A PositionController stepped toward a fixed target by the animation loop
\* of examples/travel.rs: while !controller.make_step(end_pos) { .. }.

Coords == {c * Half : c \in -MaxCoord .. MaxCoord}

Zooms == {F(2 ^ e) : e \in 0 .. MaxZoomExp}

StepLimits == 0 .. MaxStepLimit

\* The controllers of the model: positive pan step (2.0 by 1.0, or 0.25 by
\* 0.25) and zoom_scale, any limit_scale, and clamps that leave the largest
\* zoom and the smallest and largest limit of the model outside.
Controllers(start) ==
    {[pos |-> start, step |-> st, zoom_scale |-> zs, limit_scale |-> ls,
      min_zoom |-> F(1), max_zoom |-> F(2 ^ (MaxZoomExp - 1)),
      min_limit |-> 1, max_limit |-> MaxStepLimit - 1] :
        st \in {<<F(2), F(1)>>, <<Q \div 4, Q \div 4>>},
        zs \in {Half, F(1)}, ls \in {-F(1), F(1), F(2)}}

StepInit ==
    /\ \E z \in Zooms, l \in StepLimits :
         ctl \in Controllers([point |-> <<0, 0>>, zoom |-> z, limit |-> l])
    /\ \E x \in Coords, y \in {0, Half}, z \in Zooms, l \in StepLimits :
         target = [point |-> <<x, y>>, zoom |-> z, limit |-> l]
    /\ step_ret = [calls |-> 0, prev |-> ctl.pos,
                   out |-> [pos |-> ctl.pos, reached |-> FALSE, calls |-> <<>>,
                            point_reached |-> FALSE, zoom_reached |-> FALSE]]
    /\ args = [start |-> ctl.pos]
    /\ m = Unused /\ ret = Unused /\ pipe = Unused

\* The loop's condition: one more call, unless the last one returned true.
MakeStep ==
    /\ ~step_ret.out.reached
    /\ step_ret.calls < MaxCalls
    /\ LET r == controller_make_step(ctl, target) IN
         /\ ctl' = [ctl EXCEPT !.pos = r.pos]
         /\ step_ret' = [calls |-> step_ret.calls + 1, prev |-> ctl.pos, out |-> r]
    /\ UNCHANGED <<target, m, ret, args, pipe>>

StepNext == MakeStep

SpecStep == StepInit /\ [][StepNext]_vars

\* C9: a make_step call on a controller whose Position equals the target
\* returns true and leaves point, zoom and limit as they were.
C9_EqualTargetReached ==
    (step_ret.calls > 0 /\ step_ret.prev = target) =>
        /\ step_ret.out.reached
        /\ ctl.pos = step_ret.prev

\* The first call, on a controller that starts at the target.
C9_Witness ==
    /\ step_ret.calls = 1
    /\ step_ret.prev = target
    /\ target.zoom = F(2) /\ target.limit = 2
    /\ step_ret.out.reached

\* cur is not farther from to than prev was, and not on the other side of it.
NoOvershoot(prev, cur, to) ==
    /\ Abs(to - cur) <= Abs(to - prev)
    /\ (to - cur) * (to - prev) >= 0

CeilDiv(a, b) == (a + b - 1) \div b

\* The ticks one axis needs to cover distance d with pan step `step` at zoom
\* `zoom`: d / (step / zoom), rounded up, and the tick that reports reached.
PointTicks(d, step, zoom) == CeilDiv(Abs(d) * zoom, step * Q) + 1

\* The ticks the zoom needs: every tick changes it by at least
\* min(start, target) * zoom_scale.
ZoomTicks(from, to, zoom_scale) ==
    LET smallest == IF from < to THEN from ELSE to
    IN  CeilDiv(Abs(to - from) * Q, smallest * zoom_scale) + 1

\* A number of ticks fixed by the initial distances and the step sizes: the
\* zoom's ticks and the point's, the point stepping at the larger zoom at
\* worst.
TickBound ==
    LET start == args.start
        zoom == Max(start.zoom, target.zoom)
    IN  ZoomTicks(start.zoom, target.zoom, ctl.zoom_scale)
        + Max(PointTicks(target.point[1] - start.point[1], ctl.step[1], zoom),
              PointTicks(target.point[2] - start.point[2], ctl.step[2], zoom))

\* C11: with positive zooms, pan step and zoom_scale the loop of make_step
\* calls toward a fixed target ends after finitely many calls, a number
\* bounded by the initial distances and the step sizes, and when a call
\* returns true point, zoom and limit equal the target's.
C11_ReachesTargetInBoundedTicks ==
    (/\ ctl.step[1] > 0 /\ ctl.step[2] > 0 /\ ctl.zoom_scale > 0
     /\ args.start.zoom > 0 /\ target.zoom > 0) =>
        /\ step_ret.calls <= TickBound
        /\ step_ret.out.reached => ctl.pos = target

\* C12: a make_step call returns true only when its point sub-step and its
\* zoom/limit sub-step both ran and both reported reached, and then the
\* Position equals the target in point, zoom and limit.
C12_TrueOnlyWhenBothReached ==
    (step_ret.calls > 0 /\ step_ret.out.reached) =>
        /\ Range(step_ret.out.calls) = {"point", "zoom"}
        /\ step_ret.out.point_reached /\ step_ret.out.zoom_reached
        /\ ctl.pos.point = target.point
        /\ ctl.pos.zoom = target.zoom
        /\ ctl.pos.limit = target.limit

\* A call that returned true after moving the point, the zoom and the limit.
C12_Witness ==
    /\ step_ret.calls > 0
    /\ step_ret.out.reached
    /\ step_ret.prev.point # ctl.pos.point
    /\ step_ret.prev.zoom # ctl.pos.zoom
    /\ step_ret.prev.limit # ctl.pos.limit

\* The sub-step a call runs first, by the zoom before the call.
FirstSubStep == IF step_ret.prev.zoom < target.zoom THEN "point" ELSE "zoom"

SecondSubStep == IF FirstSubStep = "point" THEN "zoom" ELSE "point"

\* C13 as claimed: every make_step call runs both sub-steps, the point first
\* when the zoom is below the target's, the zoom/limit first otherwise.
C13_BothAdvanceEachCall ==
    step_ret.calls > 0 => step_ret.out.calls = <<FirstSubStep, SecondSubStep>>

\* C13 as amended: every make_step call runs the first sub-step (the point
\* when the zoom is below the target's, the zoom/limit otherwise) and runs
\* the second one only when the first reported reached in that call; a
\* sub-step that did not run leaves its part of the Position as it was.
C13_SecondOnlyAfterFirstReached ==
    step_ret.calls > 0 =>
        LET first_reached == IF FirstSubStep = "point"
                             THEN step_ret.out.point_reached
                             ELSE step_ret.out.zoom_reached
        IN  /\ first_reached => step_ret.out.calls = <<FirstSubStep, SecondSubStep>>
            /\ ~first_reached => step_ret.out.calls = <<FirstSubStep>>
            /\ (FirstSubStep = "point" /\ ctl.pos.point # target.point) =>
                   /\ ctl.pos.zoom = step_ret.prev.zoom
                   /\ ctl.pos.limit = step_ret.prev.limit
            /\ (FirstSubStep = "zoom" /\ ctl.pos.zoom # target.zoom) =>
                   ctl.pos.point = step_ret.prev.point

\* A call that moved the point without reaching the target's, and left the
\* zoom and the limit, both still to change, as they were.
C13_Witness ==
    /\ step_ret.calls > 0
    /\ step_ret.out.calls = <<"point">>
    /\ step_ret.prev.point # ctl.pos.point
    /\ ctl.pos.point # target.point
    /\ ctl.pos.zoom < target.zoom
    /\ ctl.pos.limit # target.limit

\* pos has its zoom and its limit within the controller's clamps.
InClamps(pos) ==
    /\ ctl.min_zoom <= pos.zoom /\ pos.zoom <= ctl.max_zoom
    /\ ctl.min_limit <= pos.limit /\ pos.limit <= ctl.max_limit

\* The zoom/limit sub-step of the last call: what it started from (the point
\* sub-step leaves zoom and limit alone) and the steps it takes.
ZoomSubStepRan == step_ret.calls > 0 /\ "zoom" \in Range(step_ret.out.calls)

ZoomStepSize == TruncDiv(step_ret.prev.zoom * ctl.zoom_scale, Q)

\* The zoom after a move by the step toward the target, cut to the target
\* when the target is closer than the step.
ZoomMoved ==
    IF Abs(target.zoom - step_ret.prev.zoom) < ZoomStepSize
    THEN target.zoom
    ELSE IF step_ret.prev.zoom < target.zoom
         THEN step_ret.prev.zoom + ZoomStepSize
         ELSE step_ret.prev.zoom - ZoomStepSize

\* The zoom was at the target, or closer to it than the step.
ZoomSnapped ==
    \/ step_ret.prev.zoom = target.zoom
    \/ Abs(target.zoom - step_ret.prev.zoom) < ZoomStepSize

\* max(1, integer part of current_limit * zoom_scale * limit_scale)
LimitStepSize ==
    Max(1, TruncDiv(step_ret.prev.limit * ctl.zoom_scale * ctl.limit_scale, Q * Q))

LimitMoved ==
    IF step_ret.prev.limit = target.limit
    THEN step_ret.prev.limit
    ELSE IF Abs(target.limit - step_ret.prev.limit) < LimitStepSize
         THEN target.limit
         ELSE IF step_ret.prev.limit < target.limit
              THEN step_ret.prev.limit + LimitStepSize
              ELSE step_ret.prev.limit - LimitStepSize

\* C27: in the zoom/limit sub-step the zoom moves by
\* current_zoom * zoom_scale toward the target zoom, snapping when closer;
\* if the zoom reached its target in the sub-step the limit becomes the
\* target limit, otherwise it moves by max(1, integer part of
\* current_limit * zoom_scale * limit_scale), snapping when closer; the
\* sub-step reports reached exactly when the zoom reached its target.
C27_ZoomLimitSubStep ==
    ZoomSubStepRan =>
        /\ ctl.pos.zoom = ZoomMoved
        /\ ctl.pos.limit = IF ctl.pos.zoom = target.zoom THEN target.limit ELSE LimitMoved
        /\ step_ret.out.zoom_reached <=> ctl.pos.zoom = target.zoom

\* C30: whenever the Position equals the target in point, zoom and limit
\* after a make_step call, that call returned true.
C30_AtTargetImpliesReturnedTrue ==
    (step_ret.calls > 0 /\ ctl.pos = target) => step_ret.out.reached

ZoomScales == {-F(2), -F(1), -Half, Half}

CtlInit ==
    /\ \E z \in Zooms, l \in StepLimits :
         ctl \in {c \in Controllers([point |-> <<0, 0>>, zoom |-> z, limit |-> l]) :
                     c.step = <<Q \div 4, Q \div 4>> /\ c.limit_scale = F(1)}
    /\ target = [point |-> <<1, 0>>, zoom |-> F(2), limit |-> 1]
    /\ step_ret = [op |-> "new"]
    /\ m = Unused /\ ret = Unused /\ args = Unused /\ pipe = Unused

\* The values the model follows: coordinates and zoom of bounded size.  A pan
\* at zoom 0 gives an infinite coordinate, which is outside them.
InModel(pos) ==
    /\ Abs(pos.point[1]) <= MaxPan /\ Abs(pos.point[2]) <= MaxPan
    /\ Abs(pos.zoom) <= F(2 ^ MaxZoomExp)

\* The rest of an operation op: its result is recorded, within the model's
\* values, and nothing else changes.
CtlFrame(op) ==
    /\ InModel(ctl'.pos)
    /\ step_ret' = [op |-> op]
    /\ UNCHANGED <<target, m, ret, args, pipe>>

Left ==
    /\ ctl.pos.zoom # 0
    /\ ctl' = [ctl EXCEPT !.pos = left(@, ctl.step[1])]
    /\ CtlFrame("left")

Right ==
    /\ ctl.pos.zoom # 0
    /\ ctl' = [ctl EXCEPT !.pos = right(@, ctl.step[1])]
    /\ CtlFrame("right")

Up ==
    /\ ctl.pos.zoom # 0
    /\ ctl' = [ctl EXCEPT !.pos = up(@, ctl.step[2])]
    /\ CtlFrame("up")

Down ==
    /\ ctl.pos.zoom # 0
    /\ ctl' = [ctl EXCEPT !.pos = down(@, ctl.step[2])]
    /\ CtlFrame("down")

Translate ==
    /\ ctl.pos.zoom # 0
    /\ ctl' = [ctl EXCEPT !.pos = translate(@, ctl.step)]
    /\ CtlFrame("translate")

ChangeZoom ==
    \E zs \in ZoomScales :
        /\ ctl' = controller_change_zoom(ctl, zs)
        /\ CtlFrame("change_zoom")

IncreaseZoom ==
    /\ ctl' = increase_zoom(ctl)
    /\ CtlFrame("increase_zoom")

DecreaseZoom ==
    /\ ctl' = decrease_zoom(ctl)
    /\ CtlFrame("decrease_zoom")

UpdateLimit ==
    /\ ctl' = controller_update_limit(ctl)
    /\ CtlFrame("update_limit")

ClampZoom ==
    /\ ctl' = controller_clamp_zoom(ctl)
    /\ CtlFrame("clamp_zoom")

\* Position::change_zoom on the controller's pos field.
PosChangeZoom ==
    \E zs \in ZoomScales :
        /\ ctl' = [ctl EXCEPT !.pos = change_zoom(@, zs)]
        /\ CtlFrame("pos.change_zoom")

\* Position::update_limit on the controller's pos field.
PosUpdateLimit ==
    /\ ctl' = [ctl EXCEPT !.pos = update_limit(@, ctl.limit_scale)]
    /\ CtlFrame("pos.update_limit")

CtlMakeStep ==
    /\ ctl.pos.zoom # 0
    /\ ctl' = [ctl EXCEPT !.pos = controller_make_step(ctl, target).pos]
    /\ CtlFrame("make_step")

CtlNext ==
    \/ Left \/ Right \/ Up \/ Down \/ Translate
    \/ ChangeZoom \/ IncreaseZoom \/ DecreaseZoom \/ UpdateLimit \/ ClampZoom
    \/ PosChangeZoom \/ PosUpdateLimit \/ CtlMakeStep

SpecCtl == CtlInit /\ [][CtlNext]_vars

\* C15: on a controller with min_zoom <= max_zoom and min_limit <= max_limit,
\* whatever the Position before, the zoom is within [min_zoom, max_zoom] after
\* each increase_zoom, decrease_zoom and change_zoom, and the limit within
\* [min_limit, max_limit] after each update_limit.
C15_ClampedAfterEachOperation ==
    (ctl.min_zoom <= ctl.max_zoom /\ ctl.min_limit <= ctl.max_limit) =>
        /\ step_ret.op \in {"increase_zoom", "decrease_zoom", "change_zoom"} =>
               (ctl.min_zoom <= ctl.pos.zoom /\ ctl.pos.zoom <= ctl.max_zoom)
        /\ step_ret.op = "update_limit" =>
               (ctl.min_limit <= ctl.pos.limit /\ ctl.pos.limit <= ctl.max_limit)

\* decrease_zoom with zoom_scale 1.0, which takes the zoom to 0 before the
\* clamp, on a Position whose limit is outside its clamps.
C15_Witness ==
    /\ step_ret.op = "decrease_zoom"
    /\ ctl.zoom_scale = F(1)
    /\ ctl.pos.zoom = ctl.min_zoom
    /\ ctl.pos.limit > ctl.max_limit

\* C16: the zoom of a Position that starts above 0 is above 0 after any
\* sequence of left, right, up, down, translate, change_zoom, update_limit,
\* clamp_zoom with positive bounds and make_step toward a target of zoom > 0.
C16_ZoomStaysPositive == ctl.pos.zoom > 0

\* ============================================================ the evaluator
\* compute_iterations applied to one point c and one limit.

\* c = re + im i lies outside the circle of radius 2.
OutsideRadiusTwo(re, im) == re * re + im * im > 4 * Q * Q

\* The limits the exact arithmetic of iterate has room for, and 10 for the
\* points that escape at once.
EvalLimits(re, im) == (0 .. 3) \cup (IF OutsideRadiusTwo(re, im) THEN {10} ELSE {})

EvalInit ==
    /\ \E re \in -F(MaxC) .. F(MaxC), im \in -F(MaxC) .. F(MaxC) :
         \E limit \in EvalLimits(re, im) :
            args = [re |-> re, im |-> im, limit |-> limit]
    /\ ret = [op |-> "none"]
    /\ m = Unused /\ pipe = Unused /\ ctl = Unused /\ target = Unused
    /\ step_ret = Unused

ComputeIterations ==
    /\ ret.op = "none"
    /\ ret' = [op |-> "compute_iterations",
               out |-> compute_iterations_traced(args.re, args.im, args.limit)]
    /\ UNCHANGED <<m, args, pipe, ctl, target, step_ret>>

EvalNext == ComputeIterations

SpecEval == EvalInit /\ [][EvalNext]_vars

\* C17: for c strictly inside the box -0.5 < re < 0.25, -0.5 < im < 0.5 and
\* any limit, 0 included, compute_iterations returns Infinite by its early
\* return, without a run of the loop's body; for c on the box's boundary or
\* outside it the early return is not taken and the loop decides.
C17_FastInteriorBox ==
    ret.op = "compute_iterations" =>
        IF /\ -Q < 2 * args.re /\ 4 * args.re < Q
           /\ -Q < 2 * args.im /\ 2 * args.im < Q
        THEN /\ ret.out.value = Iteration_Infinite
             /\ ret.out.path = "fast"
             /\ ret.out.steps = 0
        ELSE /\ ret.out.path = "loop"
             /\ args.limit > 0 => ret.out.steps > 0

\* c = -0.5 + 0i, on the boundary of the box, went through the whole loop.
C17_Witness ==
    /\ ret.op = "compute_iterations"
    /\ args.re = -Half /\ args.im = 0 /\ args.limit = 3
    /\ ret.out.path = "loop" /\ ret.out.steps = 3
    /\ ret.out.value = Iteration_Infinite

\* z_k of the sequence z_0 = c, z_(k+1) = z_k^2 + c, as <<re, im, den>>: the
\* complex number (re + im i) / den.
RECURSIVE ZSeq(_, _, _)
ZSeq(re, im, k) ==
    IF k = 0
    THEN <<re, im, Q>>
    ELSE LET z == ZSeq(re, im, k - 1)
             den == z[3] * z[3]
         IN  <<z[1] * z[1] - z[2] * z[2] + re * (den \div Q),
               2 * z[1] * z[2] + im * (den \div Q),
               den>>

\* |z_k|^2 > 4
Escaped(re, im, k) ==
    LET z == ZSeq(re, im, k) IN z[1] * z[1] + z[2] * z[2] > 4 * z[3] * z[3]

\* The smallest index from i on, below limit, whose z has escaped, or limit
\* when there is none.
RECURSIVE FirstEscape(_, _, _, _)
FirstEscape(re, im, limit, i) ==
    IF i >= limit THEN limit
    ELSE IF Escaped(re, im, i) THEN i
    ELSE FirstEscape(re, im, limit, i + 1)

\* C18: for c outside the fast-interior box compute_iterations(c, limit) is
\* Finite(i) for the smallest i in 0 .. limit-1 with |z_i|^2 > 4, and Infinite
\* when there is none; so a Finite count is below limit, limit 0 gives
\* Infinite, and |c|^2 > 4 with limit >= 1 gives Finite(0).
C18_FirstEscapeIndex ==
    (ret.op = "compute_iterations" /\ ret.out.path = "loop") =>
        LET first == FirstEscape(args.re, args.im, args.limit, 0) IN
        /\ ret.out.value = IF first < args.limit
                           THEN Iteration_Finite(first)
                           ELSE Iteration_Infinite
        /\ ret.out.value # Iteration_Infinite => ret.out.value[2] < args.limit
        /\ args.limit = 0 => ret.out.value = Iteration_Infinite
        /\ (OutsideRadiusTwo(args.re, args.im) /\ args.limit >= 1) =>
               ret.out.value = Iteration_Finite(0)

\* c = 2 + 0i, with |c|^2 = 4 exactly: z_0 has not escaped, z_1 = 6 has.
C18_Witness ==
    /\ ret.op = "compute_iterations"
    /\ args.re = F(2) /\ args.im = 0 /\ args.limit = 3
    /\ ret.out.value = Iteration_Finite(1)

\* ================================================================ one build
\* One build of a fresh grid, by build_image or by par_build_image, whose
\* consumer receives the results of the jobs in any order.

\* The grids of the model, and the 4x4 grid for blocks of 2x2.
BuildInputs ==
    {[grid |-> new_with(wh[1], wh[2], Stale), pos |-> pos, options |-> options] :
        wh \in GridSizes, pos \in BuildPositions, options \in BuildOptions}
    \cup
    {[grid |-> new_with(4, 4, Stale), pos |-> pos,
      options |-> [viewport_offset_scale |-> None, smooth |-> Some(<<2, 2>>)]] :
        pos \in BuildPositions}

BuildInit ==
    /\ args \in BuildInputs
    /\ m = args.grid
    /\ ret = [op |-> "none", panic |-> FALSE, done |-> {}]
    /\ pipe = Unused /\ ctl = Unused /\ target = Unused /\ step_ret = Unused

Jobs == 1 .. Len(par_items(args.grid, args.options))

BuildImage ==
    /\ ret.op = "none"
    /\ LET r == build_image(m, args.pos, args.options) IN
         /\ m' = r.matrix
         /\ ret' = [op |-> "build_image", panic |-> r.panic, done |-> Jobs]
    /\ UNCHANGED <<args, pipe, ctl, target, step_ret>>

\* The consumer of par_build_image receives the result of one more job.
ParBuildImageStep ==
    /\ ret.op \in {"none", "par_build_image"}
    /\ ~ret.panic
    /\ \E k \in Jobs \ ret.done :
         LET r == par_consume(m, args.options,
                              par_map(m, args.pos, args.options,
                                      par_items(args.grid, args.options)[k])) IN
         /\ m' = r.matrix
         /\ ret' = [op |-> "par_build_image", panic |-> r.panic,
                    done |-> ret.done \cup {k}]
    /\ UNCHANGED <<args, pipe, ctl, target, step_ret>>

BuildNext == BuildImage \/ ParBuildImageStep

SpecBuild == BuildInit /\ [][BuildNext]_vars

\* The build, sequential or parallel, has finished.
Built == ret.op # "none" /\ (ret.panic \/ ret.done = Jobs)

\* C19: a finished build with smoothing block (1, 1), sequential or
\* parallel, leaves the grid the build without smoothing computes, for every
\* grid size, Position and viewport offset.
C19_SmoothOneIsPlain ==
    (Built /\ args.options.smooth = Some(<<1, 1>>)) =>
        /\ ~ret.panic
        /\ m = build_image(args.grid, args.pos,
                           [args.options EXCEPT !.smooth = None]).matrix

\* A parallel build of a 2x2 grid with block (1, 1), in which the two
\* positions of the model give different grids.
C19_Witness ==
    /\ Built /\ ret.op = "par_build_image"
    /\ args.options.smooth = Some(<<1, 1>>)
    /\ m.width = 2 /\ m.height = 2
    /\ m.data[2] # m.data[4]

\* The top-left indexes of the blocks of the grid.
BlockTops ==
    LET sx == Unwrap(args.options.smooth)[1]
        sy == Unwrap(args.options.smooth)[2]
    IN  {<<x, y>> \in (0 .. m.width - 1) \X (0 .. m.height - 1) :
            x % sx = 0 /\ y % sy = 0}

\* C20: in a finished smoothed build the evaluator was applied once per
\* block, to the block's top-left index, and every cell of the grid holds the
\* value of its block's top-left index under the build's coordinate mapping;
\* the blocks at the right and bottom edges are cut to the grid.
C20_OneValuePerBlock ==
    (Built /\ IsSome(args.options.smooth)) =>
        LET evaluated == evaluated_indexes(args.grid, args.options) IN
        /\ ~ret.panic
        /\ Len(evaluated) = Cardinality(BlockTops)
        /\ \A b \in BlockTops :
              Cardinality({i \in 1 .. Len(evaluated) : evaluated[i] = b}) = 1
        /\ \A k \in 1 .. Len(m.data) :
              m.data[k] = transform_index_to_item(
                              args.pos,
                              get_point_offset(m.width, m.height,
                                               args.options.viewport_offset_scale,
                                               args.options.smooth),
                              BlockIndex(k))

\* The 4x4 grid built in blocks of 2x2: four blocks, each of one value, not
\* all the same.
C20_Witness ==
    /\ Built /\ ret.op = "build_image"
    /\ m.width = 4 /\ m.height = 4
    /\ args.options.smooth = Some(<<2, 2>>)
    /\ \A k \in {1, 3, 9, 11} :
          m.data[k] = m.data[k + 1] /\ m.data[k] = m.data[k + 4]
                                    /\ m.data[k] = m.data[k + 5]
    /\ Cardinality({m.data[k] : k \in {1, 3, 9, 11}}) > 1

\* The plane point of pixel index (ix, iy): center + (point_offset + (ix, iy)) / zoom,
\* point_offset = -viewport_offset_scale * (width, height) + smooth / 2 (in u32).
PlanePoint(ix, iy) ==
    LET scale == IF IsSome(args.options.viewport_offset_scale)
                 THEN Unwrap(args.options.viewport_offset_scale)
                 ELSE <<Half, Half>>
        half == IF IsSome(args.options.smooth)
                THEN <<Unwrap(args.options.smooth)[1] \div 2,
                       Unwrap(args.options.smooth)[2] \div 2>>
                ELSE <<0, 0>>
        ox == F(half[1]) - TruncDiv(scale[1] * F(m.width), Q)
        oy == F(half[2]) - TruncDiv(scale[2] * F(m.height), Q)
    IN  <<args.pos.point[1] + TruncDiv((ox + F(ix)) * Q, args.pos.zoom),
          args.pos.point[2] + TruncDiv((oy + F(iy)) * Q, args.pos.zoom)>>

\* C22: after a build every cell holds the evaluator's value at the plane
\* point center + (point_offset + index) / zoom of the index evaluated for it
\* (its own, or its block's top-left), with point_offset =
\* -viewport_offset_scale * (width, height) plus half the block when smoothing,
\* viewport_offset_scale (0.5, 0.5) by default; without smoothing the pixel
\* (width/2, height/2) of an even-sized grid is evaluated at the center.
C22_CoordinateMapping ==
    Built =>
        /\ ~ret.panic
        /\ \A k \in 1 .. Len(m.data) :
              LET p == PlanePoint(BlockIndex(k)[1], BlockIndex(k)[2])
              IN  m.data[k] = compute_iterations(p[1], p[2], args.pos.limit)
        /\ (/\ args.options = [viewport_offset_scale |-> None, smooth |-> None]
            /\ m.width % 2 = 0 /\ m.height % 2 = 0 /\ Len(m.data) > 0)
           => /\ PlanePoint(m.width \div 2, m.height \div 2) = args.pos.point
              /\ get(m, m.width \div 2, m.height \div 2).value =
                    Some(compute_iterations(args.pos.point[1], args.pos.point[2],
                                            args.pos.limit))

\* A default build of the 2x2 grid at zoom 2: pixel (1, 1) holds the value at
\* the center, and pixel (0, 0) another value.
C22_Witness ==
    /\ Built /\ ret.op = "build_image"
    /\ args.options = [viewport_offset_scale |-> None, smooth |-> None]
    /\ m.width = 2 /\ m.height = 2
    /\ args.pos.zoom = F(2)
    /\ get(m, 1, 1).value =
          Some(compute_iterations(args.pos.point[1], args.pos.point[2], args.pos.limit))
    /\ get(m, 0, 0).value # get(m, 1, 1).value

\* The item queue holds, in input order, the last items the producer sent,
\* and neither queue is longer than twice the number of worker threads.
QueuesBounded ==
    /\ Len(pipe.item_q) <= 2 * Cardinality(DOMAIN pipe.wk)
    /\ Len(pipe.result_q) <= 2 * Cardinality(DOMAIN pipe.wk)
    /\ Len(pipe.item_q) < pipe.next
    /\ pipe.item_q = SubSeq(pipe.items, pipe.next - Len(pipe.item_q), pipe.next - 1)

\* A step of the item queue: the producer appends the next input item, and
\* only when the queue is not full; a worker removes the oldest item.
QueueStep ==
    /\ pipe'.next # pipe.next =>
          /\ Len(pipe.item_q) < 2 * Cardinality(DOMAIN pipe.wk)
          /\ pipe'.next = pipe.next + 1
          /\ pipe'.item_q = Append(pipe.item_q, pipe.items[pipe.next])
    /\ pipe'.next = pipe.next /\ pipe'.item_q # pipe.item_q =>
          /\ pipe'.item_q = Tail(pipe.item_q)
          /\ \E w \in Workers :
                /\ pipe.wk[w].pc = "recv"
                /\ pipe'.wk[w].pc \in {"send", "panicked"}
                /\ pipe'.wk[w].pc = "send" =>
                      pipe'.wk[w].hold = par_map(m, args.pos, args.options,
                                                 Head(pipe.item_q))

\* C23: each of the two queues holds at most 2 * worker_count items; the
\* producer sends nothing while the item queue is full and goes on only once
\* a worker has removed an item; the items enter and leave the queue in input
\* order, none left out.
C23_BoundedQueues == [](QueuesBounded) /\ [][QueueStep]_vars

\* The producer is blocked on a full item queue while a result waits in the
\* result queue.
C23_Witness ==
    /\ pipe.producer = "run" /\ pipe.next <= Len(pipe.items)
    /\ Len(pipe.item_q) = 2 * pipe.workers
    /\ ~CanProducerSend
    /\ pipe.result_q # <<>>

\* The worker threads that have been spawned.
WorkerThreads == {w \in Workers : pipe.wk[w].pc # "unspawned"}

\* C24: once the workers are spawned, a build given workers = N, N >= 1, has
\* exactly N worker threads, and a build given no worker count has the
\* hardware parallelism minus 1, at least 1.
C24_WorkerThreads ==
    pipe.main \notin {"spawn_producer", "spawn_workers"} =>
        /\ (IsSome(args.workers) /\ Unwrap(args.workers) >= 1) =>
              Cardinality(WorkerThreads) = Unwrap(args.workers)
        /\ ~IsSome(args.workers) =>
              Cardinality(WorkerThreads) = Max(args.num_cpus - 1, 1)

\* A step of the consumer's loop in the calling thread, and of no other thread.
ConsumerStep ==
    /\ pipe.main = "consume"
    /\ pipe.result_q # <<>>
    /\ pipe'.result_q = Tail(pipe.result_q)
    /\ pipe'.producer = pipe.producer /\ pipe'.next = pipe.next
    /\ pipe'.item_q = pipe.item_q
    /\ pipe'.wk = pipe.wk

\* C25: the grid is written by the consumer alone: every step that changes a
\* cell is a step of the calling thread's consumer loop, in which neither the
\* producer nor a worker moves, so no two writes are concurrent.
C25_OnlyConsumerWrites == [][m' # m => ConsumerStep]_vars

\* The consumer has written part of the grid while the producer is running
\* and a worker holds a mapped value.
C25_Witness ==
    /\ pipe.main = "consume"
    /\ \E k \in 1 .. Len(m.data) : m.data[k] # Stale
    /\ \E k \in 1 .. Len(m.data) : m.data[k] = Stale
    /\ pipe.producer = "run"
    /\ \E w \in Workers : pipe.wk[w].pc = "send"

\* C26: when pipeline has returned, Ok or Err, the producer and every worker
\* have terminated, and no thread holds an endpoint of a queue or a value
\* with a reference into the grid.
C26_ThreadsJoinedOnReturn ==
    (pipe.main = "done" /\ pipe.result \in {"Ok", "Err"}) =>
        /\ Terminated(pipe.producer)
        /\ \A w \in Workers : Terminated(pipe.wk[w].pc) /\ pipe.wk[w].hold = <<>>
        /\ ~ItemSendersAlive /\ ~ItemReceiversAlive
        /\ ~ResultSendersAlive /\ ~ResultReceiversAlive

\* pipeline has returned Err after a worker panicked and the producer, with
\* input left, panicked on its send.
C26_Witness ==
    /\ pipe.main = "done" /\ pipe.result = "Err"
    /\ pipe.producer = "panicked" /\ pipe.next <= Len(pipe.items)
    /\ pipe.workers = 2
    /\ \E w \in Workers : pipe.wk[w].pc = "panicked"

\* C28: for every width, height and block with sides >= 1 the index groups
\* partition the grid: every index of the grid is in exactly one group, no
\* group holds an index outside the grid, the key of a group is its top-left
\* index, and so the builder's set(x, y) never panics.
C28_GroupsPartitionGrid ==
    IsSome(args.options.smooth) =>
        LET groups == index_groups(m.width, m.height,
                                   Unwrap(args.options.smooth)[1],
                                   Unwrap(args.options.smooth)[2])
            Members == UNION {{<<i, j>> : j \in 1 .. Len(groups[i][2])} :
                                 i \in 1 .. Len(groups)}
        IN  /\ \A x \in 0 .. m.width - 1, y \in 0 .. m.height - 1 :
                  Cardinality({ij \in Members :
                                  groups[ij[1]][2][ij[2]] = <<x, y>>}) = 1
            /\ \A ij \in Members :
                  LET p == groups[ij[1]][2][ij[2]]
                      key == groups[ij[1]][1]
                  IN  /\ p[1] < m.width /\ p[2] < m.height
                      /\ key[1] <= p[1] /\ key[2] <= p[2]
            /\ \A i \in 1 .. Len(groups) : groups[i][1] \in Range(groups[i][2])
            /\ Built => ~ret.panic

\* A finished build of the 3x1 grid in blocks of 2x2: the blocks are cut to
\* one of two cells and one of one cell, and every cell has been set.
C28_Witness ==
    /\ Built /\ ~ret.panic
    /\ m.width = 3 /\ m.height = 1
    /\ args.options.smooth = Some(<<2, 2>>)
    /\ index_groups(3, 1, 2, 2) = << <<<<0, 0>>, << <<0, 0>>, <<1, 0>> >> >>,
                                     <<<<2, 0>>, << <<2, 0>> >> >> >>
    /\ \A k \in 1 .. 3 : m.data[k] # Stale

WorkerPanicked == \E w \in Workers : pipe.wk[w].pc = "panicked"

\* C29: a parallel build in which one, several or all workers panic still
\* terminates: until it has returned some thread can take a step (no thread
\* is left blocked on a full or empty queue), every step takes from the work
\* left, and at the return the consumer has stopped, the producer and the
\* workers have ended and the result is Err.
C29_TerminatesAfterWorkerFault ==
    /\ []((WorkerPanicked /\ ~Returned) => SomeThreadCanStep)
    /\ [][WorkerPanicked' => WorkLeft' < WorkLeft]_vars
    /\ []((WorkerPanicked /\ Returned) =>
            /\ pipe.result = "Err"
            /\ Terminated(pipe.producer)
            /\ \A w \in Workers : Terminated(pipe.wk[w].pc))

\* The build has returned Err after every worker panicked with one item
\* taken in all: the producer, blocked with the item queue full and an item
\* left to send, was released by the disconnection and ended.
C29_Witness ==
    /\ Returned /\ pipe.result = "Err"
    /\ \A w \in Workers : pipe.wk[w].pc = "panicked"
    /\ pipe.producer = "panicked"
    /\ Len(pipe.item_q) = pipe.cap
    /\ pipe.next = pipe.cap + 2 /\ pipe.next <= Len(pipe.items)

\* C31: the parallel smoothed build, with a map that cannot fault, returns Ok
\* and leaves the grid the sequential smoothed build with the same options
\* leaves, for every grid size, Position, block, worker count and
\* interleaving.
C31_ParSmoothEqualsSmooth ==
    (Returned /\ IsSome(args.options.smooth) /\ ~args.faulty) =>
        /\ pipe.result = "Ok"
        /\ m = build_image(args.grid, args.pos, args.options).matrix

\* A 4x1 grid built in blocks of 2x1 by two workers, the two blocks with
\* different values.
C31_Witness ==
    /\ Returned /\ pipe.result = "Ok"
    /\ args.options.smooth = Some(<<2, 1>>)
    /\ pipe.workers = 2
    /\ m.width = 4 /\ m.height = 1
    /\ m.data[1] = m.data[2] /\ m.data[3] = m.data[4] /\ m.data[1] # m.data[3]

\* The grid the build without smoothing leaves, for the same Position and
\* viewport offset.
PlainGrid ==
    build_image(args.grid, args.pos, [args.options EXCEPT !.smooth = None]).matrix

CloserInit ==
    /\ args \in [self : 0 .. WordMax, to : 0 .. WordMax, step : 0 .. WordMax]
    /\ ret = [op |-> "none"]
    /\ m = Unused /\ pipe = Unused /\ ctl = Unused
    /\ target = Unused /\ step_ret = Unused

GetCloser ==
    /\ ret.op = "none"
    /\ ret' = [op |-> "get_closer",
               out |-> get_closer_words(args.self, args.to, args.step)]
    /\ UNCHANGED <<args, m, pipe, ctl, target, step_ret>>

SpecCloser == CloserInit /\ [][GetCloser]_vars

\* C33: for all words current, target and step the u32 get-closer rule
\* neither wraps nor underflows, returns a value between current and target
\* inclusive, returns (target, reached) when current = target or
\* |target - current| < step, and otherwise returns current moved by exactly
\* step toward target with reached false.
C33_GetCloserExact ==
    ret.op = "get_closer" =>
        LET self == args.self
            to == args.to
            step == args.step
        IN  /\ ~ret.out.overflow
            /\ IF self <= to
               THEN self <= ret.out.value /\ ret.out.value <= to
               ELSE to <= ret.out.value /\ ret.out.value <= self
            /\ IF self = to \/ Abs(to - self) < step
               THEN ret.out.value = to /\ ret.out.reached
               ELSE /\ ~ret.out.reached
                    /\ ret.out.value = IF self < to THEN self + step ELSE self - step

\* From the word before the largest to the largest with the largest step:
\* the target is returned as reached, and the sum, which would not fit the
\* word, is never formed.
C33_Witness ==
    /\ ret.op = "get_closer"
    /\ args = [self |-> WordMax - 1, to |-> WordMax, step |-> WordMax]
    /\ ret.out = [value |-> WordMax, reached |-> TRUE, overflow |-> FALSE]

\* ================================================== one sequential build
\* build_image on a fresh grid with any value of BuildMandelbrotSetOptions:
\* smooth is a public Option<Point<u32>>, so a side of the block may be 0.

AnySmoothOptions ==
    {None} \cup {Some(<<sx, sy>>) : sx \in 0 .. MaxSmooth, sy \in 0 .. MaxSmooth}

BuildSeqInit ==
    /\ args \in {[grid |-> new_with(wh[1], wh[2], Stale), pos |-> pos,
                  options |-> [viewport_offset_scale |-> vos, smooth |-> smooth]] :
                    wh \in GridSizes, pos \in BuildPositions,
                    vos \in {None, Some(<<0, 0>>)}, smooth \in AnySmoothOptions}
    /\ m = args.grid
    /\ ret = [op |-> "none", panic |-> FALSE, done |-> {}]
    /\ pipe = Unused /\ ctl = Unused /\ target = Unused /\ step_ret = Unused

SpecBuildSeq == BuildSeqInit /\ [][BuildImage]_vars

\* C21: build_image returns without a panic for every grid size and every
\* value of the options, whatever the smoothing block and viewport offset.
C21_BuildIsTotal == ret.op = "build_image" => ~ret.panic

\* C5: after any sequence of grid operations the storage length is
\* width * height, and width and height are the ones of the construction.
C5_SizeInvariant ==
    /\ Len(m.data) = m.width * m.height
    /\ m.width = ret.width
    /\ m.height = ret.height

\* A 2x2 grid after a write of the parallel build's consumer.
C5_Witness ==
    /\ ret.op = "par_build"
    /\ m.width = 2 /\ m.height = 2
    /\ m.data[4] = Iteration_Finite(1)

\* ================================================= try_from_raw on raw storage

RawInit ==
    /\ \E wh \in GridSizes, n \in 0 .. (MaxCells + 1) :
         \E data \in Storages(n) \cup {Counting(n)} :
           args = [width |-> wh[1], height |-> wh[2], data |-> data]
    /\ ret = [op |-> "none"]
    /\ m = Unused
    /\ pipe = Unused /\ ctl = Unused /\ target = Unused /\ step_ret = Unused

CallTryFromRaw ==
    /\ ret' = [op |-> "try_from_raw",
               out |-> try_from_raw(args.width, args.height, args.data)]
    /\ UNCHANGED <<m, args, pipe, ctl, target, step_ret>>

RawNext == CallTryFromRaw

SpecRaw == RawInit /\ [][RawNext]_vars

\* C6: try_from_raw returns a grid iff the storage length is width * height,
\* the grid holding that storage; otherwise it returns the storage unchanged.
C6_TryFromRaw ==
    ret.op = "try_from_raw" =>
        /\ ret.out.ok <=> (Len(args.data) = args.width * args.height)
        /\ ret.out.ok =>
             /\ ret.out.matrix.width = args.width
             /\ ret.out.matrix.height = args.height
             /\ ret.out.matrix.data = args.data
        /\ ~ret.out.ok => ret.out.err = args.data

\* try_from_raw(3, 1, storage of length 4) returned the storage.
C6_Witness ==
    /\ ret.op = "try_from_raw"
    /\ args.width = 3 /\ args.height = 1 /\ Len(args.data) = 4
    /\ ~ret.out.ok
    /\ ret.out.err = Counting(4)

\* ====================================================== the grid's read side

ReadInit ==
    /\ \E wh \in GridSizes :
         \E data \in Storages(wh[1] * wh[2]) \cup {Counting(wh[1] * wh[2])} :
           m = from_raw(wh[1], wh[2], data)
    /\ \E x \in 0 .. MaxCells, y \in 0 .. MaxCells : args = [x |-> x, y |-> y]
    /\ ret = [op |-> "none"]
    /\ pipe = Unused /\ ctl = Unused /\ target = Unused /\ step_ret = Unused

ReadFrame == UNCHANGED <<m, args, pipe, ctl, target, step_ret>>

Get ==
    /\ ret' = [op |-> "get", out |-> get(m, args.x, args.y)]
    /\ ReadFrame

GetMut ==
    /\ ret' = [op |-> "get_mut", out |-> get_mut(m, args.x, args.y)]
    /\ ReadFrame

GetChecked ==
    /\ ret' = [op |-> "get_checked", out |-> get_checked(m, args.x, args.y)]
    /\ ReadFrame

GetCheckedMut ==
    /\ ret' = [op |-> "get_checked_mut", out |-> get_checked_mut(m, args.x, args.y)]
    /\ ReadFrame

Indexes ==
    /\ ret' = [op |-> "indexes", out |-> indexes(m)]
    /\ ReadFrame

Values ==
    /\ ret' = [op |-> "values", out |-> values(m)]
    /\ ReadFrame

Pairs ==
    /\ ret' = [op |-> "pairs", out |-> pairs(m)]
    /\ ReadFrame

PairsMut ==
    /\ ret' = [op |-> "pairs_mut", out |-> pairs_mut(m)]
    /\ ReadFrame

ReadNext ==
    \/ Get
    \/ GetMut
    \/ GetChecked
    \/ GetCheckedMut
    \/ Indexes
    \/ Values
    \/ Pairs
    \/ PairsMut

SpecRead == ReadInit /\ [][ReadNext]_vars

InBounds == args.x < m.width /\ args.y < m.height

\* C7: in bounds, the four accessors refer to storage[y * width + x]; out of
\* bounds get and get_mut panic and the checked ones return None.
C7_Accessors ==
    ret.op \in {"get", "get_mut", "get_checked", "get_checked_mut"} =>
        /\ InBounds =>
             /\ ~ret.out.panic
             /\ ret.out.slot = args.y * m.width + args.x
             /\ ret.out.value = Some(m.data[args.y * m.width + args.x + 1])
        /\ ~InBounds =>
             /\ ret.out.value = None
             /\ ret.out.panic <=> ret.op \in {"get", "get_mut"}

\* get_checked_mut(2, 0) on a 2x2 grid: x is out of bounds although
\* y * width + x is inside the storage.
C7_Witness ==
    /\ ret.op = "get_checked_mut"
    /\ m.width = 2 /\ m.height = 2
    /\ args.x = 2 /\ args.y = 0
    /\ ret.out.value = None

RowMajor(k) == <<(k - 1) % m.width, (k - 1) \div m.width>>

\* C8: indexes() is every in-bounds (x, y) once, in row-major order; the k-th
\* pair couples the k-th index with the cell get returns for it; indexes and
\* values both have length width * height.
C8_IndexesPairs ==
    /\ ret.op = "indexes" =>
         /\ Len(ret.out) = m.width * m.height
         /\ \A k \in 1 .. Len(ret.out) : ret.out[k] = RowMajor(k)
         /\ \A x \in 0 .. m.width - 1, y \in 0 .. m.height - 1 :
              Cardinality({k \in 1 .. Len(ret.out) : ret.out[k] = <<x, y>>}) = 1
    /\ ret.op = "values" => Len(ret.out) = m.width * m.height
    /\ ret.op = "pairs" =>
         /\ Len(ret.out) = m.width * m.height
         /\ \A k \in 1 .. Len(ret.out) :
              /\ ret.out[k][1] = RowMajor(k)
              /\ Some(ret.out[k][2]) = get(m, ret.out[k][1][1], ret.out[k][1][2]).value
    /\ ret.op = "pairs_mut" =>
         /\ Len(ret.out) = m.width * m.height
         /\ \A k \in 1 .. Len(ret.out) :
              /\ ret.out[k][1] = RowMajor(k)
              /\ ret.out[k][2] = get_mut(m, ret.out[k][1][1], ret.out[k][1][2]).slot

\* pairs() of a 2x2 grid of distinct cells: the third pair is index (0, 1).
C8_Witness ==
    /\ ret.op = "pairs"
    /\ m.width = 2 /\ m.height = 2
    /\ m.data = Counting(4)
    /\ ret.out[3] = <<<<0, 1>>, Iteration_Finite(2)>>

====
